---- MODULE Spec2Model ----
(***************************************************************************)
(* Model of chisage-generate.py: the command-line run (argument            *)
(* validation, the generation loop deriving name/host/port per inverter)   *)
(* and ModbusDevice.make_config (per-device sensor file, load / upsert /   *)
(* rewrite of modbus_devices.yaml with the !include un-quoting).           *)
(*                                                                         *)
(* Strings are modelled structurally:                                      *)
(*   - an IP argument is the sequence of its dot-separated tokens, each    *)
(*     token an integer; a negative integer stands for a token that is     *)
(*     not all digits (str.isdigit() is False), << >> for the empty string *)
(*   - a device name is [prefix, num] for f"{prefix} {num}"                *)
(*   - a path is [dir, base, ext] for f"{dir}/{base}.{ext}"                *)
(*   - the Python string "!include <path>" is [head |-> "!include",        *)
(*     path |-> <path>]                                                    *)
(*   - a scalar in the YAML text is either tagged-plain (!include <path>,  *)
(*     no quotes) or single-quoted ('!include <path>')                     *)
(***************************************************************************)
EXTENDS Integers, Sequences, FiniteSets, TLC

VARIABLES
    args,         \* argparse namespace of the current / last run
    pc,           \* position of the run
    i,            \* loop index of the generation loop
    cur,          \* device of the current iteration (name, host, port)
    registry,     \* content of modbus_devices.yaml
    sensorFiles,  \* chisage/<slug>_sensors.yaml files that exist
    cardFiles,    \* chisage/<slug>_card.yaml files that exist
    pre,          \* history: modbus_devices.yaml as it was when the run started
    repeat,       \* history: the run repeats the command line of the run before it
    origin,       \* history: modbus_devices.yaml as it was before the first run
    runs          \* number of runs started

vars == <<args, pc, i, cur, registry, sensorFiles, cardFiles, pre, repeat, origin, runs>>

files == <<registry, sensorFiles, cardFiles>>

----------------------------------------------------------------------------
(* Bounds of the model *)

MaxCount == 2
MaxRuns == 2

(* Program constant: largest value of an IP octet *)
MaxOctet == 255

----------------------------------------------------------------------------
(* Inputs *)

\* IP arguments that pass the validation
GoodIPValues ==
    { <<10, 0, 0, 255>>,      \* overflows at i = 1 when incremented
      <<10, 0, 0, 7>> }

\* IP arguments that do not
BadIPValues ==
    { <<10, 0, 0>>,           \* three octets
      <<10, 0, 0, 256>>,      \* octet out of range
      <<10, 0, 0 - 1, 7>>,    \* a token that is not all digits
      << >> }                 \* the empty string

\* port arguments; argparse (type=int) accepts 0
PortValues == {0, 502}

\* command lines with a valid IP and a positive count
GoodArgValues ==
    [ count : 1 .. MaxCount,
      ipFlag : {"ip_start", "ip_fixed"},
      ip : GoodIPValues,
      portFlag : {"port_start", "port_fixed"},
      port : PortValues,
      generate_cards : BOOLEAN ]

\* command lines with a malformed IP or a non-positive count
BadArgValues ==
    [ count : {0 - 1, 0, 1},
      ipFlag : {"ip_start", "ip_fixed"},
      ip : BadIPValues,
      portFlag : {"port_fixed"},
      port : {502},
      generate_cards : {TRUE} ]
    \cup
    [ count : {0 - 1, 0},
      ipFlag : {"ip_start"},
      ip : GoodIPValues,
      portFlag : {"port_start"},
      port : {502},
      generate_cards : {TRUE} ]

ArgValues == GoodArgValues \cup BadArgValues

NoArgs ==
    [ count |-> 0, ipFlag |-> "ip_fixed", ip |-> << >>,
      portFlag |-> "port_fixed", port |-> 0, generate_cards |-> FALSE ]

----------------------------------------------------------------------------
(* Names and paths *)

DeviceName(k) == [prefix |-> "Chisage", num |-> k + 1]

Lower(s) == CASE s = "Chisage" -> "chisage"
              [] s = "Other" -> "other"
              [] OTHER -> s

SafeName(name) == [prefix |-> Lower(name.prefix), sep |-> "_", num |-> name.num]

SensorsPath(name) ==
    [dir |-> "chisage", base |-> <<SafeName(name), "_sensors">>, ext |-> "yaml"]

CardPath(name) ==
    [dir |-> "chisage", base |-> <<SafeName(name), "_card">>, ext |-> "yaml"]

----------------------------------------------------------------------------
(* YAML text <-> Python values *)

IncludeTag == "!include"

\* include_constructor: node.tag + ' ' + node.value
include_constructor(node) == [head |-> node.tag, path |-> node.value]

\* yaml.safe_load of one scalar: a tagged plain scalar goes through
\* include_constructor, a single-quoted scalar is its string content
ConstructScalar(s) ==
    IF s.style = "tagged" THEN include_constructor(s) ELSE s.str

\* yaml.dump of a str that starts with '!': PyYAML emits it single-quoted
RepresentStr(str) == [style |-> "quoted", str |-> str]

\* the pattern '(!include [^']+\.yaml)' applied to one quoted scalar
PatternMatches(s) ==
    /\ s.style = "quoted"
    /\ s.str.head = IncludeTag
    /\ s.str.path.ext = "yaml"

\* re.sub(r"'(!include [^']+\.yaml)'", r"\1", ...) on one scalar: the quotes
\* are dropped, which leaves the plain text  !include <path>
Unquote(s) ==
    IF PatternMatches(s)
    THEN [style |-> "tagged", tag |-> s.str.head, value |-> s.str.path]
    ELSE s

\* one item of the loaded list (name, type, host and port round-trip unchanged)
LoadItem(item) ==
    IF item.kind = "dict"
    THEN [item EXCEPT !.sensors = ConstructScalar(item.sensors)]
    ELSE item

\* one item of the written list: yaml.dump, then the re.sub
DumpItem(entry) ==
    IF entry.kind = "dict"
    THEN [entry EXCEPT !.sensors = Unquote(RepresentStr(entry.sensors))]
    ELSE entry

\* mutant: any mapping that holds a list is taken, whatever its key
LoadRegistryLenient(file) ==
    IF file.shape \in {"list", "wrapped", "other"}
    THEN [k \in 1 .. Len(file.items) |-> LoadItem(file.items[k])]
    ELSE << >>

\* mutant: the elif branch for the mapping with a modbus key is missing
LoadRegistryNoWrapped(file) ==
    IF file.shape = "list"
    THEN [k \in 1 .. Len(file.items) |-> LoadItem(file.items[k])]
    ELSE << >>

\* lines 107-122: modbus_hubs_list after the try block
LoadRegistry(file) ==
    IF file.shape \in {"list", "wrapped"}
    THEN [k \in 1 .. Len(file.items) |-> LoadItem(file.items[k])]
    ELSE << >>

\* lines 141-144: the text written to modbus_devices.yaml
DumpRegistry(list) ==
    [shape |-> "list", items |-> [k \in 1 .. Len(list) |-> DumpItem(list[k])]]

----------------------------------------------------------------------------
(* make_config: hub entry and upsert *)

\* lines 124-130
HubEntry(dev) ==
    [ kind |-> "dict",
      name |-> dev.name,
      type |-> "tcp",
      host |-> dev.host,
      port |-> dev.port,
      sensors |-> [head |-> IncludeTag, path |-> SensorsPath(dev.name)] ]

\* line 134: isinstance(entry, dict) and entry.get("name") == self.name
NameMatches(entry, name) == entry.kind = "dict" /\ entry.name = name

MatchingIndexes(list, name) ==
    {k \in 1 .. Len(list) : NameMatches(list[k], name)}

FirstOf(S) == CHOOSE k \in S : \A m \in S : k <= m

\* mutant: the match is ignored and the entry is always appended
UpsertAlwaysAppend(list, entry) == Append(list, entry)

\* mutant: a match overwrites the head of the list instead of the match
UpsertWrongIndex(list, entry) ==
    IF MatchingIndexes(list, entry.name) # {}
    THEN [list EXCEPT ![1] = entry]
    ELSE Append(list, entry)

\* mutant: the loop has no break, every match is replaced
UpsertAllMatches(list, entry) ==
    IF MatchingIndexes(list, entry.name) # {}
    THEN [k \in 1 .. Len(list) |->
             IF NameMatches(list[k], entry.name) THEN entry ELSE list[k]]
    ELSE Append(list, entry)

\* lines 132-139: replace the first match in place, else append
Upsert(list, entry) ==
    LET M == MatchingIndexes(list, entry.name)
    IN  IF M # {}
        THEN [list EXCEPT ![FirstOf(M)] = entry]
        ELSE Append(list, entry)

----------------------------------------------------------------------------
(* __main__: argument validation and derivation *)

\* Python truthiness of a str / int argument (None when the flag is absent)
TruthyIP(ip) == ip # << >>
TruthyPort(p) == p # 0

\* lines 240 / 252: exactly 4 tokens, each all digits and in 0..255
ValidIP(ip) ==
    /\ Len(ip) = 4
    /\ \A k \in 1 .. Len(ip) : ip[k] >= 0 /\ ip[k] <= MaxOctet

\* lines 234-236
ip_mode_is_start(a) == a.ipFlag = "ip_start" /\ TruthyIP(a.ip)

\* line 254: fixed_ip_str is bound only when the elif branch ran
fixed_ip_bound(a) == a.ipFlag = "ip_fixed" /\ TruthyIP(a.ip)

\* lines 262-264
port_mode_is_start(a) == a.portFlag = "port_start" /\ TruthyPort(a.port)

\* lines 265 / 268: port_to_process is bound only when one branch ran
port_to_process_bound(a) == TruthyPort(a.port)

\* lines 238-258: the IP setup ends in exit(1)
IPSetupFails(a) == TruthyIP(a.ip) /\ ~ValidIP(a.ip)

\* mutant: zero is let through
CountFailsStrict(a) == a.count < 0

\* lines 272-274
CountFails(a) == a.count <= 0

\* lines 282-287
current_last_octet(a, k) == a.ip[4] + k

Overflows(a, k) == ip_mode_is_start(a) /\ current_last_octet(a, k) > MaxOctet

\* lines 281-289
current_host_ip(a, k) ==
    IF ip_mode_is_start(a)
    THEN <<a.ip[1], a.ip[2], a.ip[3], current_last_octet(a, k)>>
    ELSE a.ip

\* lines 292-295
current_port_val(a, k) ==
    IF port_mode_is_start(a) THEN a.port + k ELSE a.port

\* lines 289 / 295 read a name that was never bound: NameError
RaisesNameError(a) ==
    \/ ~ip_mode_is_start(a) /\ ~fixed_ip_bound(a)
    \/ ~port_mode_is_start(a) /\ ~port_to_process_bound(a)

NoDevice == [name |-> DeviceName(0 - 1), host |-> << >>, port |-> 0]

----------------------------------------------------------------------------
(* Registry files that may exist before the first run *)

OtherName == [prefix |-> "Other", num |-> 0]

TaggedInclude(path) == [style |-> "tagged", tag |-> IncludeTag, value |-> path]

\* a hub of another integration, its sensors in a .yml file
OtherItem ==
    [ kind |-> "dict", name |-> OtherName, type |-> "tcp",
      host |-> <<10, 0, 0, 99>>, port |-> 1502,
      sensors |-> TaggedInclude([dir |-> "legacy", base |-> <<"other">>, ext |-> "yml"]) ]

\* an entry as this tool writes it
ToolItem(k, host, port) ==
    DumpItem(HubEntry([name |-> DeviceName(k), host |-> host, port |-> port]))

NoteItem == [kind |-> "scalar", value |-> "note"]

ListA == <<OtherItem, ToolItem(1, <<10, 0, 0, 50>>, 1502)>>
ListB == <<ToolItem(0, <<10, 0, 0, 50>>, 1502), NoteItem, ToolItem(0, <<10, 0, 0, 51>>, 1503)>>

AbsentFile == [shape |-> "absent", items |-> << >>]

InitialRegistries ==
    { AbsentFile,
      [shape |-> "unparseable", items |-> ListA],   \* ListA, broken: yaml.YAMLError
      [shape |-> "other", items |-> ListA],         \* ListA under a key other than modbus
      [shape |-> "list", items |-> ListA],
      [shape |-> "wrapped", items |-> ListA],
      [shape |-> "list", items |-> ListB] }

----------------------------------------------------------------------------
(* The run *)

Ended == {"idle", "done", "aborted", "crashed"}

Init ==
    /\ args = NoArgs
    /\ pc = "idle"
    /\ i = 0
    /\ cur = NoDevice
    /\ registry \in InitialRegistries
    /\ sensorFiles = {}
    /\ cardFiles = {}
    /\ pre = registry
    /\ repeat = FALSE
    /\ origin = registry
    /\ runs = 0

\* lines 228-277: parse, validate, announce
StartRun(a) ==
    /\ pc \in Ended
    /\ runs < MaxRuns
    /\ args' = a
    /\ pc' = IF IPSetupFails(a) \/ CountFails(a) THEN "aborted" ELSE "loop"
    /\ i' = 0
    /\ cur' = NoDevice
    /\ pre' = registry
    /\ repeat' = (pc # "idle" /\ a = args)
    /\ runs' = runs + 1
    /\ UNCHANGED <<files, origin>>

\* lines 279-305: one pass of the loop head up to the device construction
Derive ==
    /\ pc = "loop"
    /\ i < args.count
    /\ IF Overflows(args, i)
       THEN pc' = "aborted" /\ cur' = cur
       ELSE IF RaisesNameError(args)
       THEN pc' = "crashed" /\ cur' = cur
       ELSE /\ pc' = "sensors"
            /\ cur' = [ name |-> DeviceName(i),
                        host |-> current_host_ip(args, i),
                        port |-> current_port_val(args, i) ]
    /\ UNCHANGED <<args, i, files, pre, repeat, origin, runs>>

\* mutant: the sensor file is not written before the registry is
WriteSensorFileSkipped ==
    /\ pc = "sensors"
    /\ pc' = "hub"
    /\ UNCHANGED <<args, i, cur, files, pre, repeat, origin, runs>>

\* lines 97-104: make_config writes the per-device sensor file
WriteSensorFile ==
    /\ pc = "sensors"
    /\ sensorFiles' = sensorFiles \cup {SensorsPath(cur.name)}
    /\ pc' = "hub"
    /\ UNCHANGED <<args, i, cur, registry, cardFiles, pre, repeat, origin, runs>>

\* lines 106-144: make_config loads, upserts and rewrites modbus_devices.yaml
UpsertHubEntry ==
    /\ pc = "hub"
    /\ registry' = DumpRegistry(Upsert(LoadRegistry(registry), HubEntry(cur)))
    /\ IF args.generate_cards
       THEN pc' = "card" /\ i' = i
       ELSE pc' = "loop" /\ i' = i + 1
    /\ UNCHANGED <<args, cur, sensorFiles, cardFiles, pre, repeat, origin, runs>>

\* lines 309-353: the card file of the device
WriteCard ==
    /\ pc = "card"
    /\ cardFiles' = cardFiles \cup {CardPath(cur.name)}
    /\ pc' = "loop"
    /\ i' = i + 1
    /\ UNCHANGED <<args, cur, registry, sensorFiles, pre, repeat, origin, runs>>

\* lines 355-356: the loop is exhausted
Finish ==
    /\ pc = "loop"
    /\ i >= args.count
    /\ pc' = "done"
    /\ UNCHANGED <<args, i, cur, files, pre, repeat, origin, runs>>

Next ==
    \/ \E a \in ArgValues : StartRun(a)
    \/ Derive
    \/ WriteSensorFile
    \/ UpsertHubEntry
    \/ WriteCard
    \/ Finish

Spec == Init /\ [][Next]_vars

\* the same program started in a clean directory
InitFresh == Init /\ registry = AbsentFile

SpecFresh == InitFresh /\ [][Next]_vars

----------------------------------------------------------------------------
(* Properties *)

IsHub(item) == item.kind = "dict"

\* number of hub entries of a list that carry the name
NameCount(list, name) ==
    Cardinality({k \in 1 .. Len(list) : IsHub(list[k]) /\ list[k].name = name})

\* the device names of a run with the arguments a
RunNames(a) == {[prefix |-> "Chisage", num |-> k + 1] : k \in 0 .. a.count - 1}

\* the arguments pass the documented validation
WellFormedArgs(a) ==
    /\ a.count > 0
    /\ Len(a.ip) = 4
    /\ \A k \in 1 .. Len(a.ip) : a.ip[k] \in 0 .. 255

\* incrementing the last octet leaves 0..255 for some index below count
WillOverflow(a) ==
    /\ WellFormedArgs(a)
    /\ a.ipFlag = "ip_start"
    /\ \E k \in 0 .. a.count - 1 : a.ip[4] + k > 255

\* C1: starting from an absent registry file, the registry never holds two
\* hub entries with the same name, whatever runs are made.
C1_UniqueNames ==
    \A j, k \in 1 .. Len(registry.items) :
        (j # k /\ IsHub(registry.items[j]) /\ IsHub(registry.items[k]))
            => registry.items[j].name # registry.items[k].name

\* C1 witness: a second complete run upserted onto the two entries of the
\* first one and changed the file.
C1_Witness ==
    /\ runs = 2 /\ pc = "done"
    /\ Len(pre.items) = 2 /\ Len(registry.items) = 2
    /\ registry # pre

\* C2: a run whose incremental IP derivation overflows at some index below
\* count writes no file at all (no sensor file, no card file, no registry).
C2_OverflowWritesNothing ==
    [][WillOverflow(args') => UNCHANGED files]_vars

Others(list, a) ==
    LET keep(e) == ~(IsHub(e) /\ e.name \in RunNames(a))
    IN  SelectSeq(list, keep)

\* C4: when the registry file of the run's start loads as a list, every
\* entry whose name is not a device name of the run is present throughout
\* and after the run, with the same content and in the same relative order.
C4_OthersPreserved ==
    pre.shape = "list"
        => Others(LoadRegistry(registry), args) = Others(LoadRegistry(pre), args)

\* C4 witness: a complete run of one device over a list that holds two
\* entries of other names; the file changed.
C4_Witness ==
    /\ pc = "done" /\ pre.shape = "list" /\ args.count = 1
    /\ Len(Others(LoadRegistry(pre), args)) = 2
    /\ registry # pre

\* the loaded entry e is the hub entry of the device dev
IsEntryOf(e, dev) ==
    /\ IsHub(e)
    /\ e.name = dev.name /\ e.type = "tcp"
    /\ e.host = dev.host /\ e.port = dev.port

\* C5: an upsert of a name that is in the registry keeps the length, puts the
\* new values at the index of the (first) entry of that name and leaves every
\* other entry as it was; a name that is not in the registry is appended.
C5_UpdateInPlace ==
    [][pc = "hub" =>
        LET old == LoadRegistry(registry)
            new == LoadRegistry(registry')
            M == {k \in 1 .. Len(old) : IsHub(old[k]) /\ old[k].name = cur.name}
        IN  IF M # {}
            THEN /\ Len(new) = Len(old)
                 /\ \E j \in M :
                        /\ \A m \in M : j <= m
                        /\ IsEntryOf(new[j], cur)
                        /\ \A k \in 1 .. Len(old) : k # j => new[k] = old[k]
            ELSE /\ Len(new) = Len(old) + 1
                 /\ IsEntryOf(new[Len(new)], cur)
                 /\ \A k \in 1 .. Len(old) : new[k] = old[k]
    ]_vars

\* C5 witness: a run replaced an entry that is not the first of the list by
\* different values, the length unchanged.
C5_Witness ==
    /\ pc = "loop" /\ i = 2
    /\ Len(pre.items) = 2 /\ Len(registry.items) = 2
    /\ registry.items[1] = pre.items[1]
    /\ registry.items[2] # pre.items[2]

\* C6 (as claimed): after a run that repeats the command line of the run
\* before it, the registry is what it was after the first of the two and
\* holds exactly one entry for each device name of the run.
C6_IdempotentOneEntry ==
    (repeat /\ pc = "done") =>
        /\ registry = pre
        /\ \A n \in RunNames(args) : NameCount(registry.items, n) = 1

\* C6 (amended): after a run that repeats the command line of the run before
\* it, whether it completed or was aborted, the registry is what it was
\* after the first of the two; after a completed one it holds exactly one
\* entry for each device name of the run that did not occur more than once
\* in the registry the tool started from.
C6_Idempotent ==
    (repeat /\ pc \in {"done", "aborted", "crashed"}) =>
        /\ registry = pre
        /\ pc = "done" =>
              \A n \in RunNames(args) :
                  NameCount(LoadRegistry(origin), n) <= 1
                      => NameCount(registry.items, n) = 1

\* C6 witness: a run of two devices was repeated and completed.
C6_Witness ==
    /\ repeat /\ pc = "done" /\ args.count = 2
    /\ Len(registry.items) >= 2

\* the item the run with arguments a leaves in the file for its device k
ExpectedItem(a, k) ==
    [ kind |-> "dict",
      name |-> [prefix |-> "Chisage", num |-> k + 1],
      type |-> "tcp",
      host |-> IF a.ipFlag = "ip_start"
               THEN <<a.ip[1], a.ip[2], a.ip[3], a.ip[4] + k>>
               ELSE a.ip,
      port |-> IF a.portFlag = "port_start" THEN a.port + k ELSE a.port,
      sensors |->
          [ style |-> "tagged", tag |-> "!include",
            value |-> [ dir |-> "chisage",
                        base |-> <<[prefix |-> "chisage", sep |-> "_", num |-> k + 1],
                                   "_sensors">>,
                        ext |-> "yaml" ] ] ]

\* C7: when the registry file at the start of a run is absent, does not
\* parse, or parses to a shape that is neither a list nor a mapping with a
\* list under modbus, a completed run leaves a plain list that holds exactly
\* the entries of the run's devices, in order, and nothing of the old content.
C7_EmptyStart ==
    (pc = "done" /\ pre.shape \in {"absent", "unparseable", "other"}) =>
        /\ registry.shape = "list"
        /\ Len(registry.items) = args.count
        /\ \A k \in 1 .. args.count :
               registry.items[k] = ExpectedItem(args, k - 1)

\* C7 witness: a run completed over a file of unexpected shape that held
\* entries.
C7_Witness ==
    /\ pc = "done" /\ pre.shape = "other" /\ pre.items # << >>
    /\ args.count = 2

\* C7 witness, clean directory: a run of one device left exactly one entry.
C7_WitnessClean ==
    /\ pc = "done" /\ pre.shape = "absent" /\ args.count = 1
    /\ Len(registry.items) = 1

\* C8: every registry file the tool writes shows the sensors value of every
\* hub entry, upserted or carried over, as the unquoted scalar
\* !include <path>.
C8_AllUnquoted ==
    [][pc = "hub" =>
        \A k \in 1 .. Len(registry'.items) :
            IsHub(registry'.items[k])
                => registry'.items[k].sensors.style = "tagged"]_vars

\* C9: a run with count N > 0 that does not overflow produces exactly the
\* devices i = 0..N-1 in order, device i named "Chisage {i+1}", its host the
\* fixed address or prefix.(lastOctet+i), its port the fixed port or
\* start_port+i, for every integer port value.
C9_Derivation ==
    (WellFormedArgs(args) /\ ~WillOverflow(args)) =>
        /\ pc \notin {"aborted", "crashed"}
        /\ i \in 0 .. args.count
        /\ pc = "done" => i = args.count
        /\ pc \in {"sensors", "hub", "card"} =>
              /\ i < args.count
              /\ cur.name = [prefix |-> "Chisage", num |-> i + 1]
              /\ cur.host = ExpectedItem(args, i).host
              /\ cur.port = ExpectedItem(args, i).port

\* C10: an upsert into a registry that is a mapping with the list L under
\* modbus acts as on the bare list L (the entries of L are kept at their
\* index unless they are the match that is replaced, the device's entry is in
\* the list) and every file written is a plain list.
C10_WrappedAsList ==
    [][pc = "hub" =>
        /\ registry'.shape = "list"
        /\ registry.shape = "wrapped" =>
              LET new == registry'.items
                  M == {k \in 1 .. Len(registry.items) :
                           /\ IsHub(registry.items[k])
                           /\ registry.items[k].name = cur.name}
              IN  /\ Len(new) = Len(registry.items) + (IF M = {} THEN 1 ELSE 0)
                  /\ \A k \in 1 .. Len(registry.items) :
                         k \notin M => LoadItem(new[k]) = LoadItem(registry.items[k])
                  /\ \E k \in 1 .. Len(new) : IsEntryOf(LoadItem(new[k]), cur)
    ]_vars

\* C10 witness: a run over the wrapped shape left a plain list that holds the
\* two old entries and a new one, and a later upsert loaded that list.
C10_Witness ==
    /\ origin.shape = "wrapped" /\ registry.shape = "list"
    /\ Len(origin.items) = 2 /\ Len(registry.items) = 3
    /\ registry.items[1].name = origin.items[1].name
    /\ runs = 2 /\ pc = "done"

\* the number of devices of the run whose make_config has returned
Processed == IF pc = "card" THEN i + 1 ELSE i

\* the file holds the item and the sensor file its include names exists
HeldWithFile(item) ==
    /\ \E k \in 1 .. Len(registry.items) : registry.items[k] = item
    /\ item.sensors.value \in sensorFiles

\* C11: within a run the registry is rewritten only by the upsert of a
\* device, once per device, and the sensor file of that device is written
\* before; so in every state of a run each entry the run has written names
\* a sensor file that exists, and once device i is processed the registry
\* holds the entries of the devices 1..i of the run.
C11_WriteOrder ==
    /\ [](pc # "idle" =>
            /\ \A k \in 0 .. Processed - 1 : HeldWithFile(ExpectedItem(args, k))
            /\ pc = "hub" =>
                  ExpectedItem(args, i).sensors.value \in sensorFiles)
    /\ [][/\ registry' # registry =>
                 (pc = "hub" /\ Processed' = Processed + 1)
          /\ (pc = "hub" /\ pc' # "hub") =>
                 \E k \in 1 .. Len(registry'.items) :
                     registry'.items[k] = ExpectedItem(args, i)]_vars

\* C11 witness: in the first run, from a clean directory, device 1 is
\* processed and the sensor file of device 2 is written while the registry
\* still holds the entry of device 1 alone.
C11_Witness ==
    /\ runs = 1 /\ pc = "hub" /\ i = 1
    /\ Cardinality(sensorFiles) = 2
    /\ Len(registry.items) = 1
    /\ HeldWithFile(ExpectedItem(args, 0))

\* C12: when the loaded list holds several entries with the name of the
\* device that is upserted, the first of them is replaced and the later ones
\* are written back as they were; the number of entries of a name that is in
\* the list never changes, so unique names stay unique and duplicates stay;
\* items that are not mappings are never matched and are written back as
\* they were.
C12_DuplicatesKept ==
    [][pc = "hub" =>
        LET old == LoadRegistry(registry)
            new == LoadRegistry(registry')
            M == {k \in 1 .. Len(old) : IsHub(old[k]) /\ old[k].name = cur.name}
            names == {old[k].name : k \in {m \in 1 .. Len(old) : IsHub(old[m])}}
        IN  /\ Len(new) >= Len(old)
            /\ \A j \in M :
                   IF \A m \in M : j <= m
                   THEN IsEntryOf(new[j], cur)
                   ELSE new[j] = old[j]
            /\ \A n \in names : NameCount(new, n) = NameCount(old, n)
            /\ NameCount(new, cur.name) = (IF M = {} THEN 1 ELSE Cardinality(M))
            /\ \A k \in 1 .. Len(old) :
                   ~IsHub(old[k]) =>
                       /\ new[k] = old[k]
                       /\ registry'.items[k] = registry.items[k]
    ]_vars

\* C12 witness: a run upserted Chisage 1 into a list that held that name
\* twice around an item that is not a mapping: the first entry changed, the
\* item and the second entry are as they were.
C12_Witness ==
    /\ pc = "done" /\ runs = 1
    /\ Len(origin.items) = 3 /\ Len(registry.items) >= 3
    /\ ~IsHub(origin.items[2]) /\ registry.items[2] = origin.items[2]
    /\ NameCount(origin.items, origin.items[1].name) = 2
    /\ NameCount(registry.items, origin.items[1].name) = 2
    /\ registry.items[1] # origin.items[1]
    /\ registry.items[3] = origin.items[3]

====
